---- MODULE Spec2Model ----
(***************************************************************************)
(* State-machine model of the AI Sample Sequencer (src/main.js): the       *)
(* playback scheduler, the generation orchestrator, the sample cache and   *)
(* the offline renderer, as the handlers of one browser event loop.  Every *)
(* action is one task of the event loop: a handler runs from its entry to  *)
(* its first suspension (await), and each continuation runs from one       *)
(* suspension to the next, together with the microtasks it leaves behind.  *)
(***************************************************************************)
EXTENDS Integers, Sequences, FiniteSets, TLC

VARIABLES
    bpm,               \* let bpm (line 10)
    isPlaying,         \* let isPlaying (line 11)
    sequencerInterval, \* let sequencerInterval (line 12); NoTimer is null
    sampleDatabase,    \* let sampleDatabase (line 13)
    loadedSamples,     \* the keys of loadedSamples (line 14)
    currentSequence,   \* let currentSequence (line 15)
    aiDisabled,        \* aiButton.disabled
    downloadDisabled,  \* downloadButton.disabled
    status,            \* statusDiv.textContent
    timers,            \* the browser's active interval timers, each with its closure
    dbPhase,           \* where loadDatabase() is
    generations,       \* the getAIResponse() calls that are suspended at an await
    renders,           \* the renderBeatToWav() calls suspended at startRendering()
    event,             \* what the task that ran last did (its observable output)
    stoppedMidLoop,    \* whether the run that was stopped last had left beat 0
    failedSamples,     \* the absent filenames whose latest fetch or decode failed
    wav                \* a call of bufferToWav: its argument, its locals, its output

vars == <<bpm, isPlaying, sequencerInterval, sampleDatabase, loadedSamples,
          currentSequence, aiDisabled, downloadDisabled, status, timers, dbPhase,
          generations, renders, event, stoppedMidLoop, failedSamples, wav>>

----------------------------------------------------------------------------
(* Bounds of the model *)

\* renderBeatToWav() calls that may be suspended at once
MaxRenders == 1
\* frames of the buffers the encoder is run on
MaxFrames == 2

(* Program constants *)

TotalBeats == 16
DefaultBpm == 120
SampleCount == 5
MsPerMinute == 60000
SecondsPerMinute == 60
SampleRate == 44100
RenderChannels == 2
WavHeaderBytes == 44
BytesPerSample == 2
ScaleNegative == 32768
ScalePositive == 32767
NoTimer == 0

----------------------------------------------------------------------------
(* Input domains *)

\* values the tempo slider delivers: one that divides the frames of a minute
\* of the loop evenly, and one that does not
BpmValues == {110, 120}

\* a step.file that is empty or absent
NoFile == ""
Files == {"k.wav", "s.wav"}

Step(b, f) == [beat |-> b, file |-> f]
Track(n, st) == [name |-> n, hasSteps |-> TRUE, steps |-> st]
\* a track object without a "steps" property
TrackWithoutSteps(n) == [name |-> n, hasSteps |-> FALSE, steps |-> <<>>]

KickTrack == Track("Kick", <<Step(0, "k.wav"), Step(4, "k.wav")>>)
\* two steps at beat 3, a rest at beat 1 before a step at beat 1, a beat off the grid
SnareTrack ==
    Track("Snare", <<Step(3, "s.wav"), Step(3, "k.wav"), Step(1, NoFile),
                     Step(1, "s.wav"), Step(20, "s.wav")>>)
BrokenTrack == TrackWithoutSteps("Hat")
\* a step before the first beat of the grid, then a step on the grid
TomTrack == Track("Tom", <<Step(-1, "k.wav"), Step(2, "k.wav")>>)

\* the track lists a generator response may carry
TrackLists ==
    { <<>>,
      <<KickTrack>>,
      <<SnareTrack>>,
      <<TomTrack>>,
      <<KickTrack, BrokenTrack, SnareTrack>> }

----------------------------------------------------------------------------
(* Helpers *)

Min(S) == CHOOSE x \in S : \A y \in S : x <= y

RemoveAt(q, i) == [j \in 1..(Len(q) - 1) |-> IF j < i THEN q[j] ELSE q[j + 1]]

\* the smallest timer handle that is not active (setInterval returns a handle
\* greater than zero that no active timer has)
FreshTimer(ts) == Min((1..(Cardinality(DOMAIN ts) + 1)) \ DOMAIN ts)

----------------------------------------------------------------------------
(* The catalog: sample_database.csv after split(',') of each line.  A
   category is a sequence of characters, so that toLowerCase() and includes()
   are computed and not assumed. *)

Lower == [c \in {"D", "R", "U", "M", "S", "B", "A"} |->
            CASE c = "D" -> "d" [] c = "R" -> "r" [] c = "U" -> "u"
              [] c = "M" -> "m" [] c = "S" -> "s" [] c = "B" -> "b"
              [] c = "A" -> "a"]

\* String.prototype.toLowerCase
ToLowerCase(str) ==
    [i \in 1..Len(str) |-> IF str[i] \in DOMAIN Lower THEN Lower[str[i]] ELSE str[i]]

\* String.prototype.includes
Includes(hay, needle) ==
    \E i \in 0..(Len(hay) - Len(needle)) :
        \A j \in 1..Len(needle) : hay[i + j] = needle[j]

Row(f, c, p) == [filename |-> f, category |-> c, pack |-> p]
HeaderRow == Row("filename", <<"c", "a", "t">>, "pack")

CatDrums == <<"d", "r", "u", "m", "s">>
CatDrumsUpper == <<"D", "R", "U", "M", "S">>
CatDrumSingular == <<"D", "r", "u", "m">>
CatBass == <<"B", "a", "s", "s">>
CatMissing == <<>>

\* the files sample_database.csv may be: each a header line and its rows
CsvFiles ==
    { <<HeaderRow>>,
      <<HeaderRow, Row("s.wav", CatDrumsUpper, "p2"), Row("k.wav", CatDrums, "p2"),
        Row("b.wav", CatBass, "p1"), Row("", CatMissing, "")>>,
      <<HeaderRow, Row("k.wav", CatDrumSingular, "p1"), Row("x.wav", CatMissing, "p1")>>,
      <<HeaderRow, Row("b.wav", CatBass, "p1"), Row("", CatDrums, "p1")>> }

\* loadDatabase: slice(1), then the rows that have a filename and a category
ParseCatalog(csv) ==
    SelectSeq(Tail(csv), LAMBDA s : s.filename # "" /\ s.category # <<>>)

\* the category getAIResponse asks for, 'Drums'
DrumsCategory == <<"D", "r", "u", "m", "s">>

\* findSamples: the entries the filter keeps
MatchingSamplesAll(db, category) == db

MatchingSamples(db, category) ==
    SelectSeq(db, LAMBDA s :
        s.category # <<>> /\ Includes(ToLowerCase(s.category), ToLowerCase(category)))

\* findSamples: every result the random sort may give: the filenames of
\* min(count, matches) distinct matching entries, in any order
FindSamples(db, category, count) ==
    LET m == MatchingSamples(db, category)
        n == IF Len(m) < count THEN Len(m) ELSE count
    IN  { [i \in 1..n |-> m[p[i]].filename] :
            p \in { q \in [1..n -> 1..Len(m)] :
                      \A i, j \in 1..n : i # j => q[i] # q[j] } }

----------------------------------------------------------------------------
(* Generator responses *)

NoResponse == [kind |-> "none", tracksKey |-> "absent", tracks |-> <<>>]
TextResponse == [kind |-> "text", tracksKey |-> "absent", tracks |-> <<>>]
BadJsonResponse == [kind |-> "badjson", tracksKey |-> "absent", tracks |-> <<>>]
ObjectResponse(key, tl) == [kind |-> "object", tracksKey |-> key, tracks |-> tl]
ArrayResponse(tl) == [kind |-> "array", tracksKey |-> "absent", tracks |-> tl]

\* data.response: prose without a brace or bracket, text the pattern matches but
\* JSON.parse rejects, an object with or without "tracks", a bare array
Responses ==
    {TextResponse, BadJsonResponse, ObjectResponse("absent", <<>>),
     ObjectResponse("null", <<>>)}
    \cup {ObjectResponse("array", tl) : tl \in TrackLists}
    \cup {ArrayResponse(tl) : tl \in TrackLists}

\* extractJson throws when the pattern matches nothing or JSON.parse fails
ExtractJsonThrows(resp) == resp.kind \in {"text", "badjson"}

\* parsedData.tracks whatever the shape; a bare array has no such property
SequenceDataTracksOnly(parsed) ==
    IF parsed.tracksKey = "array" THEN [truthy |-> TRUE, tracks |-> parsed.tracks]
    ELSE [truthy |-> FALSE, tracks |-> <<>>]
\* Array.isArray(parsedData) ? parsedData : parsedData.tracks; an array, also
\* an empty one, is truthy, undefined and null are not
SequenceData(parsed) ==
    IF parsed.kind = "array" THEN [truthy |-> TRUE, tracks |-> parsed.tracks]
    ELSE IF parsed.tracksKey = "array" THEN [truthy |-> TRUE, tracks |-> parsed.tracks]
    ELSE [truthy |-> FALSE, tracks |-> <<>>]

----------------------------------------------------------------------------
(* What a task did: the audio sources it started, the outcome it reported *)

NoLoad ==
    [requested |-> {}, wasResident |-> {}, failedBefore |-> {}, fetched |-> {},
     failed |-> {}]

NoEvent ==
    [kind |-> "none", handle |-> NoTimer, beat |-> 0, first |-> FALSE, sources |-> {},
     response |-> NoResponse, load |-> NoLoad,
     channels |-> 0, frames |-> 0, onsets |-> {},
     renderBpm |-> 0, fileBpm |-> 0]

\* an AudioBufferSourceNode started for step `k` of track `t`
Source(seq, t, k) ==
    [track |-> t, step |-> k, beat |-> seq[t].steps[k].beat, file |-> seq[t].steps[k].file]

----------------------------------------------------------------------------
(* The sequencer engine *)

\* the index of the first track whose steps cannot be read, Len + 1 if none:
\* track.steps.find / .map / .forEach throws a TypeError there
FirstBrokenTrack(seq) ==
    Min({t \in 1..Len(seq) : ~seq[t].hasSteps} \cup {Len(seq) + 1})

Max(S) == CHOOSE x \in S : \A y \in S : x >= y

\* track.steps.find(s => s.beat === currentBeat): the index of the first step
\* at that beat, 0 when there is none (undefined)
FindLastStep(steps, beat) ==
    IF \E k \in 1..Len(steps) : steps[k].beat = beat
    THEN Max({k \in 1..Len(steps) : steps[k].beat = beat})
    ELSE 0

FindStep(steps, beat) ==
    IF \E k \in 1..Len(steps) : steps[k].beat = beat
    THEN Min({k \in 1..Len(steps) : steps[k].beat = beat})
    ELSE 0

\* playSample: a source is started only for a resident sample
PlaysSample(file, loaded) == file \in loaded

\* the sources one tick at `beat` starts: the forEach of the interval callback,
\* which ends at the first track whose steps cannot be read
TickTriggers(seq, beat, loaded) ==
    { Source(seq, t, FindStep(seq[t].steps, beat)) : t \in
        { u \in 1..(FirstBrokenTrack(seq) - 1) :
            LET k == FindStep(seq[u].steps, beat)
            IN  /\ k # 0
                /\ seq[u].steps[k].file # NoFile
                /\ PlaysSample(seq[u].steps[k].file, loaded) } }

\* whether the interval callback throws before it advances the beat counter
TickThrows(seq) == FirstBrokenTrack(seq) <= Len(seq)

\* timePerBeat * 1000, the interval handed to setInterval, which takes whole
\* milliseconds
TimePerBeatMs(tempo) == MsPerMinute \div tempo

\* currentBeat = (currentBeat + 1) % totalBeats
NextBeat(b) == (b + 1) % TotalBeats

\* let currentBeat = 0
InitialBeatAdvanced == NextBeat(0)

InitialBeat == 0

\* clearInterval(handle); clearInterval(null) does nothing
ClearInterval(ts, handle) == [i \in DOMAIN ts \ {handle} |-> ts[i]]

\* setInterval(callback, ms) under handle; `fired` tells whether the callback ran
SetInterval(ts, handle, ms) ==
    [i \in DOMAIN ts \cup {handle} |->
        IF i = handle
        THEN [currentBeat |-> InitialBeat, interval |-> ms, fired |-> FALSE]
        ELSE ts[i]]

\* the playback part of the state, as togglePlayback reads and writes it
PlayState ==
    [isPlaying |-> isPlaying, sequencerInterval |-> sequencerInterval,
     timers |-> timers, stoppedMidLoop |-> stoppedMidLoop]

\* togglePlayback's stop branch
StopPlaybackLeak(p) ==
    [p EXCEPT !.sequencerInterval = NoTimer, !.isPlaying = FALSE]

StopPlayback(p) ==
    [p EXCEPT !.timers = ClearInterval(p.timers, p.sequencerInterval),
              !.sequencerInterval = NoTimer,
              !.isPlaying = FALSE,
              !.stoppedMidLoop =
                  /\ p.sequencerInterval \in DOMAIN p.timers
                  /\ p.timers[p.sequencerInterval].currentBeat # InitialBeat]

\* togglePlayback's start branch
StartPlayback(p, tempo) ==
    LET handle == FreshTimer(p.timers)
    IN  [p EXCEPT !.isPlaying = TRUE,
                  !.timers = SetInterval(p.timers, handle, TimePerBeatMs(tempo)),
                  !.sequencerInterval = handle]

\* togglePlayback() on playback state p with the sequence and tempo of the moment
Toggled(p, seq, tempo) ==
    IF Len(seq) = 0 THEN p
    ELSE IF p.isPlaying THEN StopPlayback(p)
    ELSE StartPlayback(p, tempo)

SetPlayState(p) ==
    /\ isPlaying' = p.isPlaying
    /\ sequencerInterval' = p.sequencerInterval
    /\ timers' = p.timers
    /\ stoppedMidLoop' = p.stoppedMidLoop

\* a click on the play button
TogglePlayback ==
    /\ SetPlayState(Toggled(PlayState, currentSequence, bpm))
    /\ event' = NoEvent
    /\ UNCHANGED <<wav, bpm, sampleDatabase, loadedSamples, currentSequence, aiDisabled,
                   downloadDisabled, status, dbPhase, generations, renders,
                   failedSamples>>

\* the interval callback of an active timer
Tick(handle) ==
    /\ handle \in DOMAIN timers
    /\ LET b == timers[handle].currentBeat
       IN  /\ event' = [NoEvent EXCEPT
                           !.kind = "tick", !.handle = handle, !.beat = b,
                           !.first = ~timers[handle].fired,
                           !.sources = TickTriggers(currentSequence, b, loadedSamples)]
           /\ timers' = [timers EXCEPT
                           ![handle].currentBeat =
                               IF TickThrows(currentSequence) THEN b ELSE NextBeat(b),
                           ![handle].fired = TRUE]
    /\ UNCHANGED <<wav, bpm, isPlaying, sequencerInterval, sampleDatabase, loadedSamples,
                   currentSequence, aiDisabled, downloadDisabled, status, dbPhase,
                   generations, renders, stoppedMidLoop, failedSamples>>

\* the tempo slider's input listener
BpmSliderInput(v) ==
    /\ bpm' = v
    /\ SetPlayState(IF isPlaying
                    THEN Toggled(Toggled(PlayState, currentSequence, v), currentSequence, v)
                    ELSE PlayState)
    /\ event' = NoEvent
    /\ UNCHANGED <<wav, sampleDatabase, loadedSamples, currentSequence, aiDisabled,
                   downloadDisabled, status, dbPhase, generations, renders,
                   failedSamples>>

----------------------------------------------------------------------------
(* The sample database *)

\* loadDatabase, from the completion of response.text() to its end
LoadDatabaseDone(csv) ==
    /\ dbPhase = "loading"
    /\ dbPhase' = "done"
    /\ sampleDatabase' = ParseCatalog(csv)
    /\ status' = "DatabaseLoaded"
    /\ aiDisabled' = FALSE
    /\ event' = NoEvent
    /\ UNCHANGED <<wav, bpm, isPlaying, sequencerInterval, loadedSamples, currentSequence,
                   downloadDisabled, timers, generations, renders, stoppedMidLoop,
                   failedSamples>>

\* loadDatabase's catch: the fetch of sample_database.csv failed
LoadDatabaseFailed ==
    /\ dbPhase = "loading"
    /\ dbPhase' = "failed"
    /\ status' = "DatabaseError"
    /\ event' = NoEvent
    /\ UNCHANGED <<wav, bpm, isPlaying, sequencerInterval, sampleDatabase, loadedSamples,
                   currentSequence, aiDisabled, downloadDisabled, timers, generations,
                   renders, stoppedMidLoop, failedSamples>>

----------------------------------------------------------------------------
(* Dynamic sample loading *)

\* sequence.flatMap(track => track.steps.map(step => step.file)) throws a
\* TypeError at a track whose steps cannot be read
LoadNeverThrows(seq) == FALSE

LoadThrows(seq) == FirstBrokenTrack(seq) <= Len(seq)

\* uniqueFilenames: every step.file of the sequence, the empty one included
UniqueFilenames(seq) ==
    UNION { {seq[t].steps[k].file : k \in 1..Len(seq[t].steps)} : t \in 1..Len(seq) }

\* the filenames the map callback starts a fetch for: not resident, not empty
NeedsFetchAlways(filename, loaded) == filename # NoFile

NeedsFetch(filename, loaded) == filename \notin loaded /\ filename # NoFile

\* a getAIResponse() call suspended at the fetch of /api/generate
RequestPending ==
    [pc |-> "request", response |-> NoResponse, load |-> NoLoad, fetching |-> {}]

\* a getAIResponse() call suspended at Promise.all(loadPromises): what the load
\* asked for and found, and the fetches that have not settled
LoadPending(resp, seq, loaded, failedSoFar) ==
    [pc |-> "loading",
     response |-> resp,
     load |-> [requested |-> UniqueFilenames(seq) \ {NoFile},
               wasResident |-> (UniqueFilenames(seq) \ {NoFile}) \cap loaded,
               failedBefore |-> failedSoFar,
               fetched |-> {f \in UniqueFilenames(seq) : NeedsFetch(f, loaded)},
               failed |-> {}],
     fetching |-> {f \in UniqueFilenames(seq) : NeedsFetch(f, loaded)}]

----------------------------------------------------------------------------
(* AI integration *)

\* whether the insufficient-samples exit is taken
NotEnoughSamples(kicks, snares, hats) ==
    Len(kicks) = 0 \/ Len(snares) = 0 \/ Len(hats) = 0

\* aiButton.disabled while the request is built and sent
AiButtonLeftEnabled == FALSE

AiButtonDisabledOnEntry == TRUE

\* a click on the generate button: getAIResponse up to the await of fetch, or
\* to the return of the insufficient-samples exit
GetAIResponse ==
    /\ ~aiDisabled
    /\ downloadDisabled' = TRUE
    /\ \E kicks \in FindSamples(sampleDatabase, DrumsCategory, SampleCount),
          snares \in FindSamples(sampleDatabase, DrumsCategory, SampleCount),
          hats \in FindSamples(sampleDatabase, DrumsCategory, SampleCount) :
          IF NotEnoughSamples(kicks, snares, hats)
          THEN /\ status' = "NotEnoughSamples"
               /\ aiDisabled' = FALSE
               /\ event' = [NoEvent EXCEPT !.kind = "insufficient"]
               /\ UNCHANGED generations
          ELSE /\ status' = "AskingAI"
               /\ aiDisabled' = AiButtonDisabledOnEntry
               /\ event' = [NoEvent EXCEPT !.kind = "requested"]
               /\ generations' = Append(generations, RequestPending)
    /\ UNCHANGED <<wav, bpm, isPlaying, sequencerInterval, sampleDatabase, loadedSamples,
                   currentSequence, timers, dbPhase, renders, stoppedMidLoop,
                   failedSamples>>

\* the catch and finally blocks of getAIResponse, for generation i
GenerationError(i, resp) ==
    /\ status' = "AIError"
    /\ aiDisabled' = FALSE
    /\ generations' = RemoveAt(generations, i)
    /\ event' = [NoEvent EXCEPT !.kind = "error", !.response = resp]

\* the end of the try block after the load, then finally, for generation i
GenerationSuccess(i, resp, load) ==
    /\ status' = "SamplesLoaded"
    /\ downloadDisabled' = FALSE
    /\ aiDisabled' = FALSE
    /\ generations' = RemoveAt(generations, i)
    /\ event' = [NoEvent EXCEPT !.kind = "generated", !.response = resp, !.load = load]

\* the request of generation i fails: fetch rejects, the status is not ok, or
\* the body is not JSON
GenerationRequestFails(i) ==
    /\ i \in 1..Len(generations)
    /\ generations[i].pc = "request"
    /\ GenerationError(i, NoResponse)
    /\ UNCHANGED <<wav, bpm, isPlaying, sequencerInterval, sampleDatabase, loadedSamples,
                   currentSequence, downloadDisabled, timers, dbPhase, renders,
                   stoppedMidLoop, failedSamples>>

\* the response of generation i arrives: getAIResponse from data.response to
\* the await in loadSamplesForSequence, or to its end when no fetch is started
GenerationResponse(i, resp) ==
    /\ i \in 1..Len(generations)
    /\ generations[i].pc = "request"
    /\ IF ExtractJsonThrows(resp) \/ ~SequenceData(resp).truthy
       THEN /\ GenerationError(i, resp)
            /\ UNCHANGED <<currentSequence, downloadDisabled>>
       ELSE LET seq == SequenceData(resp).tracks
                g == LoadPending(resp, seq, loadedSamples, failedSamples)
            IN  /\ currentSequence' = seq
                /\ IF LoadThrows(seq)
                   THEN /\ GenerationError(i, resp)
                        /\ UNCHANGED downloadDisabled
                   ELSE IF g.fetching = {}
                   THEN GenerationSuccess(i, resp, g.load)
                   ELSE /\ status' = "LoadingSamples"
                        /\ generations' = [generations EXCEPT ![i] = g]
                        /\ event' = [NoEvent EXCEPT !.kind = "loading", !.response = resp]
                        /\ UNCHANGED <<aiDisabled, downloadDisabled>>
    /\ UNCHANGED <<wav, bpm, isPlaying, sequencerInterval, sampleDatabase, loadedSamples,
                   timers, dbPhase, renders, stoppedMidLoop, failedSamples>>

\* the promise chain of one filename of generation i settles: decoded and
\* stored (ok), or failed and logged by the catch; after the last one,
\* Promise.all resolves and getAIResponse runs to its end
SampleSettles(i, filename, ok) ==
    /\ i \in 1..Len(generations)
    /\ generations[i].pc = "loading"
    /\ filename \in generations[i].fetching
    /\ loadedSamples' = IF ok THEN loadedSamples \cup {filename} ELSE loadedSamples
    /\ failedSamples' = IF ok THEN failedSamples \ {filename}
                        ELSE IF filename \in loadedSamples THEN failedSamples
                        ELSE failedSamples \cup {filename}
    /\ LET g == [generations[i] EXCEPT
                    !.fetching = @ \ {filename},
                    !.load.failed = IF ok THEN @ ELSE @ \cup {filename}]
       IN  IF g.fetching = {}
           THEN GenerationSuccess(i, g.response, g.load)
           ELSE /\ generations' = [generations EXCEPT ![i] = g]
                /\ event' = NoEvent
                /\ UNCHANGED <<status, aiDisabled, downloadDisabled>>
    /\ UNCHANGED <<wav, bpm, isPlaying, sequencerInterval, sampleDatabase, currentSequence,
                   timers, dbPhase, renders, stoppedMidLoop>>

----------------------------------------------------------------------------
(* Offline rendering *)

\* the steps of one track the renderer calls source.start for
RenderedSteps(steps, loaded) ==
    {k \in 1..Len(steps) : steps[k].file # NoFile /\ PlaysSample(steps[k].file, loaded)}

\* source.start(time) throws a RangeError when time is negative; the index of
\* the first step of a track at which it does, or Len(steps) + 1
FirstRangeError(steps, loaded) ==
    Min({k \in RenderedSteps(steps, loaded) : steps[k].beat < 0} \cup {Len(steps) + 1})

\* whether the inner forEach over one track completes
TrackRenders(track, loaded) ==
    track.hasSteps /\ FirstRangeError(track.steps, loaded) > Len(track.steps)

\* the index of the first track at which the render throws, or Len(seq) + 1:
\* track.steps.forEach throws a TypeError at a track whose steps cannot be
\* read, source.start a RangeError at a resident step with a negative beat
FirstThrowingTrack(seq, loaded) ==
    Min({t \in 1..Len(seq) : ~TrackRenders(seq[t], loaded)} \cup {Len(seq) + 1})

RenderThrows(seq, loaded) == FirstThrowingTrack(seq, loaded) <= Len(seq)

\* the sources renderBeatToWav starts in the offline context: every rendered
\* step of the tracks before the throw, and of the track that throws the
\* steps before its RangeError
RenderSchedule(seq, loaded) ==
    UNION { { Source(seq, t, k) :
                k \in { j \in RenderedSteps(seq[t].steps, loaded) :
                           j < FirstRangeError(seq[t].steps, loaded) } } :
            t \in { u \in 1..Len(seq) :
                      u <= FirstThrowingTrack(seq, loaded) /\ seq[u].hasSteps } }

\* a context of four beats instead of sixteen
RenderLengthFourBeats(tempo) == (SampleRate * 4 * SecondsPerMinute) \div tempo
\* the length of the OfflineAudioContext in frames: 44100 * duration with
\* duration = totalBeats * (60.0 / bpm); the constructor takes its length as an
\* unsigned long, so the fraction of a frame is cut off
RenderLength(tempo) == (SampleRate * TotalBeats * SecondsPerMinute) \div tempo

\* the frame of the rendered buffer at which a source started for `beat` sets
\* in: its start time step.beat * timePerBeat, in frames
StartFrame(beat, tempo) == (beat * SecondsPerMinute * SampleRate) \div tempo

\* the onsets of the sources started in the offline context
Onsets(sources, tempo) == { StartFrame(x.beat, tempo) : x \in sources }

\* a click on the download button: renderBeatToWav up to the await of
\* startRendering, or to the TypeError that rejects it
RenderBeatToWav ==
    /\ ~downloadDisabled
    /\ Len(renders) < MaxRenders
    /\ IF Len(currentSequence) = 0
       THEN /\ event' = NoEvent
            /\ UNCHANGED <<status, downloadDisabled, renders>>
       ELSE /\ status' = "Rendering"
            /\ downloadDisabled' = TRUE
            /\ event' = [NoEvent EXCEPT
                            !.kind = IF RenderThrows(currentSequence, loadedSamples)
                                     THEN "renderThrew" ELSE "render",
                            !.sources = RenderSchedule(currentSequence, loadedSamples),
                            !.channels = RenderChannels,
                            !.frames = RenderLength(bpm),
                            !.onsets = Onsets(RenderSchedule(currentSequence,
                                                             loadedSamples), bpm)]
            /\ renders' =
                 IF RenderThrows(currentSequence, loadedSamples) THEN renders
                 ELSE Append(renders, [bpm |-> bpm])
    /\ UNCHANGED <<wav, bpm, isPlaying, sequencerInterval, sampleDatabase, loadedSamples,
                   currentSequence, aiDisabled, timers, dbPhase, generations,
                   stoppedMidLoop, failedSamples>>

\* the tempo in a.download = `ai-beat-${bpm}bpm.wav`: bpm as it is read when
\* the name is built
DownloadBpm(atStart, atCompletion) == atCompletion

\* startRendering of render i resolves: renderBeatToWav to its end; the
\* buffer it encodes has the length fixed when the render was started
RenderDone(i) ==
    /\ i \in 1..Len(renders)
    /\ renders' = RemoveAt(renders, i)
    /\ status' = "DownloadComplete"
    /\ downloadDisabled' = FALSE
    /\ event' = [NoEvent EXCEPT
                    !.kind = "download",
                    !.renderBpm = renders[i].bpm,
                    !.frames = RenderLength(renders[i].bpm),
                    !.channels = RenderChannels,
                    !.fileBpm = DownloadBpm(renders[i].bpm, bpm)]
    /\ UNCHANGED <<wav, bpm, isPlaying, sequencerInterval, sampleDatabase, loadedSamples,
                   currentSequence, aiDisabled, timers, dbPhase, generations,
                   stoppedMidLoop, failedSamples>>

\* the sources one loop of live playback starts, beat 0 to beat 15
LiveLoopTriggers(seq, loaded) ==
    UNION { TickTriggers(seq, b, loaded) : b \in 0..(TotalBeats - 1) }

----------------------------------------------------------------------------
(* The WAV encoder, bufferToWav.  The buffers of a render are too long to   *)
(* enumerate, and the encoder depends on nothing but its argument: it is    *)
(* stepped through on short buffers, one action per part of its body.       *)

\* a sample is a multiple of 1/SampleDenominator
SampleDenominator == 4
\* the samples -1.5, -0.75, -0.25, 0.5 and 1.5
SampleValues == {-6, -3, -1, 2, 6}
ChannelCounts == {1, 2}

\* the AudioBuffers handed to bufferToWav: channelData[c][f] is the sample of
\* channel c at frame f
AudioBuffers ==
    UNION { { [numberOfChannels |-> c, length |-> f, channelData |-> d] :
                d \in [1..c -> [1..f -> SampleValues]] } :
            c \in ChannelCounts, f \in 0..MaxFrames }

NoBuffer == [numberOfChannels |-> 0, length |-> 0, channelData |-> <<>>]

\* no call of bufferToWav is under way
WavIdle ==
    [pc |-> "idle", buffer |-> NoBuffer, len |-> 0, pos |-> 0, offset |-> 0,
     view |-> <<>>, blobSize |-> 0]

\* bufferToWav has been entered with `buffer`
WavCalled(buffer) == [WavIdle EXCEPT !.pc = "called", !.buffer = buffer]

\* a / b with the fraction cut off towards zero, for b > 0: what | 0 makes of
\* the quotient
Truncate(a, b) == IF a >= 0 THEN a \div b ELSE -((-a) \div b)

\* Math.max(-1, Math.min(1, sample)), on numerators
Clip(n) ==
    IF n > SampleDenominator THEN SampleDenominator
    ELSE IF n < -SampleDenominator THEN -SampleDenominator ELSE n

\* view.setInt16 keeps the low 16 bits, as a signed number
Int16(v) == ((v + 32768) % 65536) - 32768

\* quantization by the sign of the clipped sample: 32768 for every negative
\* sample, 32767 for the others
QuantizeBySign(n) ==
    Int16(Truncate(Clip(n) * (IF Clip(n) < 0 THEN ScaleNegative ELSE ScalePositive),
                   SampleDenominator))
\* (0.5 + sample < 0 ? sample * 32768 : sample * 32767) | 0 of the clipped
\* sample; + binds tighter than <, so the test is sample < -0.5
Quantize(n) ==
    Int16(Truncate(Clip(n) * (IF SampleDenominator + 2 * Clip(n) < 0
                              THEN ScaleNegative ELSE ScalePositive),
                   SampleDenominator))

\* len = buffer.length * numOfChan * 2 + 44
WavLength(buffer) ==
    buffer.length * buffer.numberOfChannels * BytesPerSample + WavHeaderBytes

\* setUint16 and setUint32: `size` bytes of `data` written at pos; pos += size
Put(w, size, data) ==
    [w EXCEPT !.view = Append(@, [at |-> w.pos, size |-> size, data |-> data]),
              !.pos = @ + size]

\* the thirteen header fields; the tags are "RIFF", "WAVE", "fmt " and "data"
WriteHeader(w) ==
    LET n == w.buffer.numberOfChannels
        a == Put(Put(Put(w, 4, 1179011410), 4, w.len - 8), 4, 1163280727)
        b == Put(Put(Put(Put(a, 4, 544501094), 4, 16), 2, 1), 2, n)
        c == Put(Put(b, 4, SampleRate), 4, SampleRate * 2 * n)
        d == Put(Put(Put(c, 2, n * 2), 2, 16), 4, 1635017060)
    IN  Put(d, 4, d.len - d.pos - 4)

\* channels[i][offset]; past the end of the channel it is undefined, which
\* the arithmetic turns into 0
ChannelSample(buffer, i, offset) ==
    IF offset < buffer.length THEN buffer.channelData[i][offset + 1] ELSE 0

\* one sample per frame, that of the first channel only
WriteFrameFirstChannel(w) ==
    [w EXCEPT !.view = Append(@, [at |-> w.pos, size |-> BytesPerSample,
                                  data |-> Quantize(ChannelSample(w.buffer, 1, w.offset))]),
              !.pos = @ + BytesPerSample,
              !.offset = @ + 1]
\* one iteration of while (pos < len): a sample of every channel, then offset++
WriteFrame(w) ==
    [w EXCEPT !.view = @ \o [i \in 1..w.buffer.numberOfChannels |->
                                [at |-> w.pos + (i - 1) * BytesPerSample,
                                 size |-> BytesPerSample,
                                 data |-> Quantize(ChannelSample(w.buffer, i, w.offset))]],
              !.pos = @ + w.buffer.numberOfChannels * BytesPerSample,
              !.offset = @ + 1]

\* bufferToWav from its entry to the while loop: the locals and the header
BufferToWavHeader ==
    /\ wav.pc = "called"
    /\ wav' = WriteHeader([wav EXCEPT !.pc = "loop", !.len = WavLength(wav.buffer)])

\* one iteration of the while loop
BufferToWavFrame ==
    /\ wav.pc = "loop"
    /\ wav.pos < wav.len
    /\ wav' = WriteFrame(wav)

\* the loop is left and the view is returned as a Blob
BufferToWavReturn ==
    /\ wav.pc = "loop"
    /\ ~(wav.pos < wav.len)
    /\ wav' = [wav EXCEPT !.pc = "done", !.blobSize = wav.len]

----------------------------------------------------------------------------
(* The specification *)

InitProgram ==
    /\ bpm = DefaultBpm
    /\ isPlaying = FALSE
    /\ sequencerInterval = NoTimer
    /\ sampleDatabase = <<>>
    /\ loadedSamples = {}
    /\ currentSequence = <<>>
    /\ aiDisabled \in BOOLEAN
    /\ downloadDisabled \in BOOLEAN
    /\ status = "Initial"
    /\ timers = [i \in {} |-> 0]
    /\ dbPhase = "loading"
    /\ generations = <<>>
    /\ renders = <<>>
    /\ event = NoEvent
    /\ stoppedMidLoop = FALSE
    /\ failedSamples = {}

Init == InitProgram /\ wav = WavIdle

Next ==
    \/ TogglePlayback
    \/ \E handle \in DOMAIN timers : Tick(handle)
    \/ \E v \in BpmValues : BpmSliderInput(v)
    \/ \E csv \in CsvFiles : LoadDatabaseDone(csv)
    \/ LoadDatabaseFailed
    \/ GetAIResponse
    \/ \E i \in 1..Len(generations) : GenerationRequestFails(i)
    \/ \E i \in 1..Len(generations), resp \in Responses : GenerationResponse(i, resp)
    \/ \E i \in 1..Len(generations), f \in Files, ok \in BOOLEAN : SampleSettles(i, f, ok)
    \/ RenderBeatToWav
    \/ \E i \in 1..Len(renders) : RenderDone(i)

Spec == Init /\ [][Next]_vars

\* the encoder on its own: bufferToWav is entered with any of the buffers
ProgramIdle ==
    UNCHANGED <<bpm, isPlaying, sequencerInterval, sampleDatabase, loadedSamples,
                currentSequence, aiDisabled, downloadDisabled, status, timers, dbPhase,
                generations, renders, event, stoppedMidLoop, failedSamples>>

InitWav ==
    /\ InitProgram
    /\ aiDisabled /\ downloadDisabled
    /\ \E buffer \in AudioBuffers : wav = WavCalled(buffer)

NextWav ==
    \/ BufferToWavHeader /\ ProgramIdle
    \/ BufferToWavFrame /\ ProgramIdle
    \/ BufferToWavReturn /\ ProgramIdle

SpecWav == InitWav /\ [][NextWav]_vars

----------------------------------------------------------------------------
(* Properties *)

\* a source as the listener hears it: which track, at which beat, which sample
Heard(sources) == { [track |-> x.track, beat |-> x.beat, file |-> x.file] : x \in sources }

\* C1: the scheduler is Running exactly when one interval timer is armed, the
\* one sequencerInterval names; when it is Stopped no timer is armed, and no
\* tick fires while it is Stopped.
C1_RunningIffOneTimer ==
    /\ isPlaying <=> Cardinality(DOMAIN timers) = 1
    /\ isPlaying => DOMAIN timers = {sequencerInterval}
    /\ ~isPlaying => DOMAIN timers = {} /\ sequencerInterval = NoTimer
    /\ event.kind = "tick" => isPlaying

\* playback was stopped in the middle of a loop, after a tempo change and a
\* render, and no timer is left
C1_Witness ==
    /\ ~isPlaying /\ stoppedMidLoop /\ DOMAIN timers = {}
    /\ bpm # DefaultBpm /\ status = "DownloadComplete"

\* C2 (as claimed): after every tick the beat counter of its timer is one past
\* the beat the tick processed, modulo 16, and the processed beat is in [0, 15].
C2_CounterAdvancesEveryTick ==
    event.kind = "tick" =>
        /\ event.beat \in 0..(TotalBeats - 1)
        /\ event.handle \in DOMAIN timers
        /\ timers[event.handle].currentBeat = (event.beat + 1) % TotalBeats

\* C3: the first tick of every run processes beat 0: a timer that has not
\* fired yet has its beat counter at 0, whatever beat the previous run reached.
C3_RunStartsAtBeatZero ==
    /\ event.kind = "tick" /\ event.first => event.beat = 0
    /\ \A h \in DOMAIN timers : ~timers[h].fired => timers[h].currentBeat = 0

\* the first tick of a run that follows a run stopped in the middle of a loop
C3_Witness ==
    event.kind = "tick" /\ event.first /\ event.beat = 0 /\ stoppedMidLoop

\* C4: a live tick at beat b starts at most one source per track, and it is
\* for the first step of the track, in step order, whose beat is b.
C4_FirstMatchOnly ==
    event.kind = "tick" =>
        /\ \A x \in event.sources :
              /\ x.track \in 1..Len(currentSequence)
              /\ x.step \in 1..Len(currentSequence[x.track].steps)
              /\ currentSequence[x.track].steps[x.step].beat = event.beat
              /\ \A j \in 1..(x.step - 1) :
                    currentSequence[x.track].steps[j].beat # event.beat
        /\ \A x, y \in event.sources : x.track = y.track => x = y

\* a tick started the first of two steps a track has at the tick's beat
C4_Witness ==
    /\ event.kind = "tick"
    /\ \E x \in event.sources :
          \E j \in (x.step + 1)..Len(currentSequence[x.track].steps) :
              currentSequence[x.track].steps[j].beat = event.beat

\* C5 (as claimed): the sources the offline render schedules are the sources
\* one full 16-beat loop of live playback of the same sequence starts.
C5_RenderMatchesLive ==
    event.kind = "render" =>
        Heard(event.sources) = Heard(LiveLoopTriggers(currentSequence, loadedSamples))

\* C6 (as claimed): a generation that ends in an error leaves currentSequence
\* as it was.
C6_FailedGenerationKeepsSequence ==
    [][event'.kind \in {"error", "insufficient"} => currentSequence' = currentSequence]_vars

\* the responses C7 names: no JSON value in the text, an object whose "tracks"
\* is absent or null, a track without a steps list
Rejectable(resp) ==
    \/ resp.kind = "text"
    \/ resp.kind = "object" /\ resp.tracksKey \in {"absent", "null"}
    \/ \E t \in 1..Len(resp.tracks) : ~resp.tracks[t].hasSteps

\* C7: a response with no JSON value, with "tracks" absent or null, or with a
\* track that lacks a steps list ends the generation with the error outcome,
\* never with the loading or the success outcome.
C7_BadResponseRejected ==
    (event.kind \in {"error", "loading", "generated"} /\ Rejectable(event.response)) =>
        /\ event.kind = "error"
        /\ status = "AIError"
        /\ generations = <<>>

\* a response with a track that lacks a steps list was rejected
C7_Witness ==
    /\ event.kind = "error"
    /\ \E t \in 1..Len(event.response.tracks) : ~event.response.tracks[t].hasSteps

\* C8: at most one generation is in flight, the generate button is disabled
\* while it is, and the button is enabled when a generation has finished, by
\* success, by error or by the insufficient-samples exit.
C8_OneGenerationInFlight ==
    /\ Len(generations) <= 1
    /\ Len(generations) = 1 => aiDisabled
    /\ event.kind \in {"insufficient", "error", "generated"} =>
          ~aiDisabled /\ generations = <<>>

\* a generation is loading its samples while a render completed, and the
\* generate button is still disabled
C8_Witness ==
    /\ Len(generations) = 1 /\ generations[1].pc = "loading"
    /\ status = "DownloadComplete" /\ dbPhase = "done" /\ aiDisabled

\* whether some catalog entry's category contains "drum", case-insensitively
HasDrumEntry(db) ==
    \E i \in 1..Len(db) : Includes(ToLowerCase(db[i].category), <<"d", "r", "u", "m">>)

\* C9: with no catalog entry whose category contains "drum", a click on
\* generate ends with the insufficient-samples outcome and no request is sent.
C9_NoDrumsNoRequest ==
    (event.kind \in {"requested", "insufficient"} /\ ~HasDrumEntry(sampleDatabase)) =>
        /\ event.kind = "insufficient"
        /\ status = "NotEnoughSamples"
        /\ generations = <<>>

\* the insufficient-samples exit was taken with a catalog that has entries,
\* none of them a drum
C9_Witness ==
    /\ event.kind = "insufficient"
    /\ sampleDatabase # <<>>
    /\ ~HasDrumEntry(sampleDatabase)

\* what C10 says of a load, given the cache as it is now
LoadIsSound(l, loaded) ==
    /\ l.fetched \cap l.wasResident = {}
    /\ l.fetched = l.requested \ l.wasResident
    /\ (l.requested \cap l.failedBefore) \subseteq l.fetched
    /\ l.failed \subseteq l.fetched
    /\ l.failed \cap loaded = {}

\* C10: a sample load completes with the success outcome whatever fetches
\* failed; every requested filename that did not fail is resident, every
\* failed one is absent, no filename resident at the start is fetched, and a
\* filename that failed in an earlier load is fetched again.
C10_PartialLoad ==
    /\ \A i \in 1..Len(generations) :
          generations[i].pc = "loading" =>
              /\ LoadIsSound(generations[i].load, loadedSamples)
              /\ generations[i].fetching \subseteq generations[i].load.fetched
    /\ event.kind = "generated" =>
          /\ status = "SamplesLoaded"
          /\ LoadIsSound(event.load, loadedSamples)
          /\ (event.load.requested \ event.load.failed) \subseteq loadedSamples

\* a load completed in which one fetch failed, a sibling was decoded, and a
\* filename that had failed in an earlier load was fetched again
C10_Witness ==
    /\ event.kind = "generated"
    /\ event.load.failed # {}
    /\ event.load.fetched \ event.load.failed # {}
    /\ event.load.fetched \cap event.load.failedBefore # {}

\* whether a generation (its request or its sample prefetch) or an offline
\* render is suspended at an await
WorkOutstanding == Len(generations) > 0 \/ Len(renders) > 0

\* C11: a tick that fires while a generation, a sample prefetch or an offline
\* render is outstanding advances the beat counter; it starts no source for a
\* step whose sample is not resident, and it takes the sequence it plays from
\* entirely from the current Sequence.
C11_TicksDuringWork ==
    (event.kind = "tick" /\ WorkOutstanding) =>
        /\ event.handle \in DOMAIN timers
        /\ timers[event.handle].currentBeat = (event.beat + 1) % TotalBeats
        /\ \A x \in event.sources : x.file \in loadedSamples
        /\ event.sources = TickTriggers(currentSequence, event.beat, loadedSamples)

\* a step live playback and the renderer are to skip: its beat is off the
\* 16-beat grid, or it names no file
OffGrid(step) == step.beat \notin 0..(TotalBeats - 1) \/ step.file = NoFile

\* C12: a step whose beat is outside [0, 15], or whose file is empty or
\* absent, is skipped by live playback and by the offline render: neither
\* starts a source for it, and the render raises no error because of it (it
\* throws only at a track whose steps cannot be read).
C12_OffGridStepsSkipped ==
    /\ event.kind \in {"tick", "render", "renderThrew"} =>
          \A x \in event.sources : ~OffGrid(Step(x.beat, x.file))
    /\ event.kind = "renderThrew" => TickThrows(currentSequence)

\* what C13 says of one step
TempoChangeRestarts ==
    /\ (bpm' # bpm /\ isPlaying) =>
          /\ isPlaying'
          /\ DOMAIN timers' = {sequencerInterval'}
          /\ timers'[sequencerInterval'].interval = TimePerBeatMs(bpm')
          /\ timers'[sequencerInterval'].currentBeat = 0
    /\ (bpm' # bpm /\ ~isPlaying) => ~isPlaying' /\ DOMAIN timers' = {}
    /\ (bpm' = bpm /\ isPlaying /\ isPlaying') =>
          timers'[sequencerInterval'].interval = timers[sequencerInterval].interval

\* C13: a tempo change while the scheduler is Running leaves it Running with
\* exactly one timer, whose interval is 60/bpm for the new bpm and whose beat
\* counter is 0; a tempo change while it is Stopped leaves it Stopped; and the
\* interval of a running timer changes in no other step.
C13_TempoChangeRestarts == [][TempoChangeRestarts]_vars

\* the render of the one-track Kick sequence (steps at beat 0 and beat 4, sample
\* resident) at bpm 120 has started
KickRenderedAt120 ==
    /\ event.kind = "render"
    /\ currentSequence = <<KickTrack>>
    /\ "k.wav" \in loadedSamples
    /\ bpm = 120

\* C14 as stated: that render produces a 2-second, 2-channel buffer with
\* exactly two onsets, at sample offsets 0 and 44100.
C14_KickRenderTwoSeconds ==
    KickRenderedAt120 =>
        /\ event.channels = 2
        /\ event.frames = 2 * SampleRate
        /\ event.onsets = {0, 44100}

\* C14, amended: that render produces an 8-second, 2-channel buffer (16 beats
\* of half a second, 352800 frames) with exactly two onsets, at sample offsets
\* 0 and 88200 (beat 4 starts at 2 seconds).
C14_KickRenderEightSeconds ==
    KickRenderedAt120 =>
        /\ event.channels = 2
        /\ event.frames = 8 * SampleRate
        /\ event.frames = 352800
        /\ event.onsets = {0, 88200}
        /\ Cardinality(event.sources) = 2

C14_Witness == KickRenderedAt120 /\ event.onsets = {0, 88200}

\* a / b rounded to the nearest integer, for a >= 0 and b > 0
Round(a, b) == (2 * a + b) \div (2 * b)

\* C15: for every Sequence that renders and every bpm, the rendered buffer has
\* 2 channels and its length in frames is round(totalBeats * 60/bpm * 44100),
\* with totalBeats = 16.
C15_RenderLengthRounded ==
    event.kind = "render" =>
        /\ event.channels = 2
        /\ event.frames = Round(TotalBeats * SecondsPerMinute * SampleRate, bpm)

\* the header field written at byte `at`
HeaderField(view, at) == view[CHOOSE k \in 1..Len(view) : view[k].at = at].data

\* the write that holds the sample of channel c (from 1) at frame f (from 1)
\* when the samples are interleaved after the header
SampleIndex(buffer, f, c) == 13 + (f - 1) * buffer.numberOfChannels + c

\* C16: for a buffer of F frames and C channels the encoder's output is
\* 44 + F*C*2 bytes long; the header's size fields are that length minus 8 and
\* minus 44; and the write loop ends with pos at that length, after writing
\* exactly F frames of C interleaved samples.
C16_WavLength ==
    LET F == wav.buffer.length
        C == wav.buffer.numberOfChannels
    IN  /\ wav.pc \in {"loop", "done"} =>
              /\ wav.len = 44 + F * C * 2
              /\ HeaderField(wav.view, 4) = wav.len - 8
              /\ HeaderField(wav.view, 40) = wav.len - 44
              /\ wav.offset <= F
              /\ wav.pos = 44 + wav.offset * C * 2
        /\ wav.pc = "done" =>
              /\ wav.blobSize = 44 + F * C * 2
              /\ wav.pos = wav.len
              /\ wav.offset = F
              /\ Len(wav.view) = 13 + F * C
              /\ \A f \in 1..F, c \in 1..C :
                    LET write == wav.view[SampleIndex(wav.buffer, f, c)]
                    IN  /\ write.at = 44 + ((f - 1) * C + (c - 1)) * 2
                        /\ write.size = 2
                        /\ write.data = Quantize(wav.buffer.channelData[c][f])

\* the encoder has returned the encoding of a buffer of two channels and at
\* least two frames whose channels differ
C16_Witness ==
    /\ wav.pc = "done"
    /\ wav.buffer.numberOfChannels = 2
    /\ wav.buffer.length >= 2
    /\ wav.buffer.channelData[1] # wav.buffer.channelData[2]

\* C17: every sample the encoder writes is the sample clipped to [-1, 1] and
\* scaled by 32768 when it is negative and by 32767 when it is not; every
\* written value lies in [-32768, 32767].
C17_AsymmetricScale ==
    wav.pc = "done" =>
        \A f \in 1..wav.buffer.length, c \in 1..wav.buffer.numberOfChannels :
            LET data == wav.view[SampleIndex(wav.buffer, f, c)].data
            IN  /\ data = QuantizeBySign(wav.buffer.channelData[c][f])
                /\ data \in -32768..32767

\* a response that carries a track list, wrapped in an object or bare
CarriesTracks(resp) ==
    resp.kind = "array" \/ (resp.kind = "object" /\ resp.tracksKey = "array")

\* C18: a response that carries its track list in an object under "tracks" and
\* one that is the bare array are treated alike: either is accepted (unless a
\* track has no steps) and makes its track list the current Sequence.
C18_BothShapesAccepted ==
    (event.kind \in {"loading", "generated", "error"} /\ CarriesTracks(event.response)) =>
        /\ currentSequence = event.response.tracks
        /\ (\A t \in 1..Len(event.response.tracks) : event.response.tracks[t].hasSteps)
              => event.kind # "error"

\* a bare array of tracks was accepted and is the current Sequence
C18_Witness ==
    /\ event.kind = "generated"
    /\ event.response.kind = "array"
    /\ currentSequence = event.response.tracks
    /\ Len(currentSequence) > 0

\* C19: whenever the scheduler is Running, a click on the play button stops
\* it: in no reachable state does playback run and the toggle leave it running.
C19_ToggleStopsPlayback ==
    isPlaying =>
        LET p == Toggled(PlayState, currentSequence, bpm)
        IN  ~p.isPlaying /\ DOMAIN p.timers = {}

\* C20: the download button is disabled whenever a generation is in flight,
\* also one started while a render was under way; and whenever no generation
\* and no render is in flight and the current Sequence is non-empty, it is
\* enabled, also after a failed generation.
C20_DownloadGate ==
    /\ Len(generations) > 0 => downloadDisabled
    /\ (Len(generations) = 0 /\ Len(renders) = 0 /\ Len(currentSequence) > 0)
          => ~downloadDisabled

\* C21: the tempo in the name of the downloaded file is the tempo the render
\* computed its start times and its duration with, also when the tempo was
\* changed while the render was in progress.
C21_FileNameTempo ==
    event.kind = "download" =>
        /\ event.fileBpm = event.renderBpm
        /\ event.frames = RenderLength(event.fileBpm)

====
